---- MODULE Spec2Model ----
(***************************************************************************)
(* office-local-bridge desktop backend (src-tauri): the bridge-service     *)
(* process supervisor (commands.rs, start_bridge_service and               *)
(* stop_bridge_service over BridgeProcessState) and the JSON configuration *)
(* store (config.rs read_config/write_config and the add/update/delete     *)
(* commands of commands.rs).                                               *)
(***************************************************************************)
EXTENDS Integers, Sequences, FiniteSets, TLC

(***************************************************************************)
(* Bounds of the model.                                                    *)
(***************************************************************************)
\* Worker threads of the pool that runs the command invocations.
NumWorkers == 2
\* start_bridge_service invocations in one behaviour (each spawns at most once).
MaxStarts == 3

\* Distinct entry ids and entry names the commands are called with.
NumIds == 2
NumNames == 2
\* Collection commands (add/update/delete) invoked in one behaviour.
MaxCommands == 3
\* Commands on config.json (get/save/update) invoked in one behaviour.
MaxConfigCommands == 2

Workers == 1..NumWorkers

\* Option::None of Option<Child>, and "no thread owns the mutex".
None == 0
NoWorker == 0

VARIABLES
    \* ---- ProcessSupervisor (commands.rs 582-710) ----
    process_guard,   \* content of BridgeProcessState.0: None or the pid of the Child
    mutexOwner,      \* the worker that holds the Mutex, or NoWorker
    procs,           \* OS process table: procs[pid] of every process spawned so far
    spc,             \* position of each worker inside start/stop
    sres,            \* ApiResponse returned by the worker's last finished command
    calls,           \* OS calls issued by the worker's current (or last) command
    starts,          \* number of start_bridge_service invocations so far
    \* ---- ConfigStore (config.rs) and the collection commands ----
    files,           \* content of providers.json, models.json, mcp-servers.json
    cpc,             \* position of each worker inside a collection command
    cmd,             \* the collection command the worker is running
    config,          \* the command's local `config`: the document it read and changed
    cres,            \* the collection command that returned last, and its ApiResponse
    ncmds,           \* number of collection commands invoked so far
    answers,         \* the answers the UI has received from collection
                     \* commands, where a specification keeps them
    \* ---- config.json and get_config / save_config / update_config ----
    cfgFile,         \* content of config.json
    upd,             \* the update_config in flight: its argument and its `current`
    cfgCall,         \* the config command that returned last, and its ApiResponse
    ncfg,            \* number of config commands invoked so far
    \* ---- BridgeClient: the commands that call the bridge service over HTTP ----
    req,             \* the request in flight: its command, timeout and URL
    hres,            \* the BridgeClient command that returned last: what the
                     \* request met and the ApiResponse made of it
    \* ---- where and how start_bridge_service launches the service ----
    disk,            \* the environment: BRIDGE_SERVICE_PATH, the resource
                     \* directory and the paths that exist
    launch           \* the service path and start command resolved last

supVars == <<process_guard, mutexOwner, procs, spc, sres, calls, starts>>

storeVars == <<files, cpc, cmd, config, cres, ncmds>>

cfgVars == <<cfgFile, upd, cfgCall, ncfg>>

clientVars == <<req, hres>>

launchVars == <<disk, launch>>

vars == <<process_guard, mutexOwner, procs, spc, sres, calls, starts,
          files, cpc, cmd, config, cres, ncmds,
          cfgFile, upd, cfgCall, ncfg,
          req, hres,
          disk, launch, answers>>

\* What the commands of one component never touch.
outsideSupervisor == <<storeVars, cfgVars, clientVars, launchVars, answers>>

outsideStore == <<supVars, cfgVars, clientVars, launchVars>>

outsideConfig == <<supVars, storeVars, clientVars, launchVars, answers>>

outsideClient == <<supVars, storeVars, cfgVars, launchVars, answers>>

outsideLaunch == <<supVars, storeVars, cfgVars, clientVars, answers>>

(***************************************************************************)
(* ApiResponse<T> (commands.rs 20-44): only success and the error message  *)
(* matter here; messages are named by what they say.                       *)
(***************************************************************************)
ApiSuccess == [success |-> TRUE, error |-> "none"]

ApiError(message) == [success |-> FALSE, error |-> message]

NoResponse == [success |-> FALSE, error |-> "no_call_yet"]

(***************************************************************************)
(* The OS process table.  A spawned process is "running" until it exits on *)
(* its own or is killed; a killed process exits a moment later.            *)
(***************************************************************************)
Live == {p \in DOMAIN procs : procs[p] # "exited"}

\* The child exits: on its own, or because it was killed.
ChildExit(p) ==
    /\ p \in Live
    /\ procs' = [procs EXCEPT ![p] = "exited"]
    /\ UNCHANGED <<process_guard, mutexOwner, spc, sres, calls, starts>>
    /\ UNCHANGED outsideSupervisor

(***************************************************************************)
(* start_bridge_service (commands.rs 631-677)                              *)
(***************************************************************************)
\* The command is invoked on worker t.
StartCall(t) ==
    /\ spc[t] = "idle"
    /\ starts < MaxStarts
    /\ starts' = starts + 1
    /\ spc' = [spc EXCEPT ![t] = "start_lock"]
    /\ calls' = [calls EXCEPT ![t] = <<>>]
    /\ UNCHANGED <<process_guard, mutexOwner, procs, sres>>
    /\ UNCHANGED outsideSupervisor

\* state.0.lock(): blocks until the mutex is free (line 638).
StartLock(t) ==
    /\ spc[t] = "start_lock"
    /\ mutexOwner = NoWorker
    /\ mutexOwner' = t
    /\ spc' = [spc EXCEPT ![t] = "start_probe"]
    /\ UNCHANGED <<process_guard, procs, sres, calls, starts>>
    /\ UNCHANGED outsideSupervisor

\* The command returns r: the guard is dropped, which releases the mutex.
Return(t, r) ==
    /\ sres' = [sres EXCEPT ![t] = r]
    /\ spc' = [spc EXCEPT ![t] = "idle"]
    /\ mutexOwner' = NoWorker

\* if let Some(child) = *process_guard { match child.try_wait() ... } (641-654).
\* try_wait answers Ok(Some(_)) for an exited child, Ok(None) for a live one,
\* and may fail with an OS error whatever the child's state.
\* (StartProbeLiveAsExited: the Ok(None) arm falls through to the spawn;
\* StartProbeErrAsExited: the Err arm is treated like Ok(Some(_)).)
StartProbeLiveAsExited(t) ==
    /\ spc[t] = "start_probe"
    /\ mutexOwner = t
    /\ IF process_guard = None
       THEN /\ spc' = [spc EXCEPT ![t] = "start_spawn"]
            /\ UNCHANGED <<process_guard, mutexOwner, sres, calls>>
       ELSE \/ /\ calls' = [calls EXCEPT ![t] = Append(@,
                     IF procs[process_guard] = "exited"
                     THEN "try_wait_exited" ELSE "try_wait_running")]
               /\ process_guard' = None
               /\ spc' = [spc EXCEPT ![t] = "start_spawn"]
               /\ UNCHANGED <<mutexOwner, sres>>
            \/ /\ calls' = [calls EXCEPT ![t] = Append(@, "try_wait_err")]
               /\ Return(t, ApiError("probe_failed"))
               /\ UNCHANGED process_guard
    /\ UNCHANGED <<procs, starts>>
    /\ UNCHANGED outsideSupervisor

StartProbeErrAsExited(t) ==
    /\ spc[t] = "start_probe"
    /\ mutexOwner = t
    /\ IF process_guard = None
       THEN /\ spc' = [spc EXCEPT ![t] = "start_spawn"]
            /\ UNCHANGED <<process_guard, mutexOwner, sres, calls>>
       ELSE \/ /\ procs[process_guard] = "exited"
               /\ calls' = [calls EXCEPT ![t] = Append(@, "try_wait_exited")]
               /\ process_guard' = None
               /\ spc' = [spc EXCEPT ![t] = "start_spawn"]
               /\ UNCHANGED <<mutexOwner, sres>>
            \/ /\ procs[process_guard] # "exited"
               /\ calls' = [calls EXCEPT ![t] = Append(@, "try_wait_running")]
               /\ Return(t, ApiError("already_running"))
               /\ UNCHANGED process_guard
            \/ /\ calls' = [calls EXCEPT ![t] = Append(@, "try_wait_err")]
               /\ process_guard' = None
               /\ spc' = [spc EXCEPT ![t] = "start_spawn"]
               /\ UNCHANGED <<mutexOwner, sres>>
    /\ UNCHANGED <<procs, starts>>
    /\ UNCHANGED outsideSupervisor

StartProbe(t) ==
    /\ spc[t] = "start_probe"
    /\ mutexOwner = t
    /\ IF process_guard = None
       THEN /\ spc' = [spc EXCEPT ![t] = "start_spawn"]
            /\ UNCHANGED <<process_guard, mutexOwner, sres, calls>>
       ELSE \/ /\ procs[process_guard] = "exited"             \* Ok(Some(_))
               /\ calls' = [calls EXCEPT ![t] = Append(@, "try_wait_exited")]
               /\ process_guard' = None
               /\ spc' = [spc EXCEPT ![t] = "start_spawn"]
               /\ UNCHANGED <<mutexOwner, sres>>
            \/ /\ procs[process_guard] # "exited"             \* Ok(None)
               /\ calls' = [calls EXCEPT ![t] = Append(@, "try_wait_running")]
               /\ Return(t, ApiError("already_running"))
               /\ UNCHANGED process_guard
            \/ /\ calls' = [calls EXCEPT ![t] = Append(@, "try_wait_err")]
               /\ Return(t, ApiError("probe_failed"))         \* Err(e)
               /\ UNCHANGED process_guard
    /\ UNCHANGED <<procs, starts>>
    /\ UNCHANGED outsideSupervisor

\* Command::new(..).spawn() (663-676): Ok(child) stores the handle, Err(e)
\* returns the error; one attempt either way.
\* (StartSpawnRetries: a rejected spawn is tried again.)
StartSpawnRetries(t) ==
    /\ spc[t] = "start_spawn"
    /\ mutexOwner = t
    /\ \/ /\ calls' = [calls EXCEPT ![t] = Append(@, "spawn_ok")]
          /\ procs' = Append(procs, "running")
          /\ process_guard' = Len(procs) + 1
          /\ Return(t, ApiSuccess)
       \/ /\ Len(calls[t]) < 3
          /\ calls' = [calls EXCEPT ![t] = Append(@, "spawn_err")]
          /\ UNCHANGED <<process_guard, procs, spc, sres, mutexOwner>>
    /\ UNCHANGED starts
    /\ UNCHANGED outsideSupervisor

StartSpawn(t) ==
    /\ spc[t] = "start_spawn"
    /\ mutexOwner = t
    /\ \/ /\ calls' = [calls EXCEPT ![t] = Append(@, "spawn_ok")]   \* Ok(child)
          /\ procs' = Append(procs, "running")
          /\ process_guard' = Len(procs) + 1
          /\ Return(t, ApiSuccess)
       \/ /\ calls' = [calls EXCEPT ![t] = Append(@, "spawn_err")]  \* Err(e)
          /\ Return(t, ApiError("spawn_failed"))
          /\ UNCHANGED <<process_guard, procs>>
    /\ UNCHANGED starts
    /\ UNCHANGED outsideSupervisor

(***************************************************************************)
(* stop_bridge_service (commands.rs 680-710)                               *)
(***************************************************************************)
StopCall(t) ==
    /\ spc[t] = "idle"
    /\ spc' = [spc EXCEPT ![t] = "stop_lock"]
    /\ calls' = [calls EXCEPT ![t] = <<>>]
    /\ UNCHANGED <<process_guard, mutexOwner, procs, sres, starts>>
    /\ UNCHANGED outsideSupervisor

\* state.0.lock() (line 684).
StopLock(t) ==
    /\ spc[t] = "stop_lock"
    /\ mutexOwner = NoWorker
    /\ mutexOwner' = t
    /\ spc' = [spc EXCEPT ![t] = "stop_kill"]
    /\ UNCHANGED <<process_guard, procs, sres, calls, starts>>
    /\ UNCHANGED outsideSupervisor

\* if let Some(child) = *process_guard { taskkill /F or child.kill() } else
\* { error } (686-700, 707-709).  The result of the kill is dropped (let _):
\* it may have killed the child or failed and left it running.
\* (StopKillIdempotent: a stop with nothing to stop reports success.)
StopKillIdempotent(t) ==
    /\ spc[t] = "stop_kill"
    /\ mutexOwner = t
    /\ IF process_guard = None
       THEN /\ Return(t, ApiSuccess)
            /\ UNCHANGED <<procs, calls>>
       ELSE /\ calls' = [calls EXCEPT ![t] = Append(@, "kill")]
            /\ spc' = [spc EXCEPT ![t] = "stop_wait"]
            /\ \/ /\ procs[process_guard] = "running"
                  /\ procs' = [procs EXCEPT ![process_guard] = "killed"]
               \/ UNCHANGED procs
            /\ UNCHANGED <<mutexOwner, sres>>
    /\ UNCHANGED <<process_guard, starts>>
    /\ UNCHANGED outsideSupervisor

StopKill(t) ==
    /\ spc[t] = "stop_kill"
    /\ mutexOwner = t
    /\ IF process_guard = None
       THEN /\ Return(t, ApiError("not_running"))
            /\ UNCHANGED <<procs, calls>>
       ELSE /\ calls' = [calls EXCEPT ![t] = Append(@, "kill")]
            /\ spc' = [spc EXCEPT ![t] = "stop_wait"]
            /\ \/ /\ procs[process_guard] = "running"
                  /\ procs' = [procs EXCEPT ![process_guard] = "killed"]
               \/ UNCHANGED procs
            /\ UNCHANGED <<mutexOwner, sres>>
    /\ UNCHANGED <<process_guard, starts>>
    /\ UNCHANGED outsideSupervisor

\* let _ = child.wait() (line 703): returns once the child has exited.
\* (StopWaitNoBlock: the stop goes on without waiting for the exit.)
StopWaitNoBlock(t) ==
    /\ spc[t] = "stop_wait"
    /\ mutexOwner = t
    /\ calls' = [calls EXCEPT ![t] = Append(@, "wait")]
    /\ spc' = [spc EXCEPT ![t] = "stop_clear"]
    /\ UNCHANGED <<process_guard, mutexOwner, procs, sres, starts>>
    /\ UNCHANGED outsideSupervisor

StopWait(t) ==
    /\ spc[t] = "stop_wait"
    /\ mutexOwner = t
    /\ procs[process_guard] = "exited"
    /\ calls' = [calls EXCEPT ![t] = Append(@, "wait")]
    /\ spc' = [spc EXCEPT ![t] = "stop_clear"]
    /\ UNCHANGED <<process_guard, mutexOwner, procs, sres, starts>>
    /\ UNCHANGED outsideSupervisor

\* *process_guard = None; Ok(ApiResponse::success(true)) (704-706).
\* (StopClearKeepsHandle: success is returned with the handle still stored.)
StopClearKeepsHandle(t) ==
    /\ spc[t] = "stop_clear"
    /\ mutexOwner = t
    /\ Return(t, ApiSuccess)
    /\ UNCHANGED <<process_guard, procs, calls, starts>>
    /\ UNCHANGED outsideSupervisor

StopClear(t) ==
    /\ spc[t] = "stop_clear"
    /\ mutexOwner = t
    /\ process_guard' = None
    /\ Return(t, ApiSuccess)
    /\ UNCHANGED <<procs, calls, starts>>
    /\ UNCHANGED outsideSupervisor

(***************************************************************************)
(* ConfigStore (config.rs).  The three collection documents; each entry    *)
(* carries the fields the commands look at, id and name.                   *)
(***************************************************************************)
\* providers.json, models.json, mcp-servers.json (config.rs 21-34).
Docs == {"providers", "models", "mcp_servers"}

Ids == 1..NumIds
Names == 1..NumNames

\* AIProviderConfig / ModelConfig / McpServerConfig: id and name.
Entry(id, name) == [id |-> id, name |-> name]

\* Default for ProvidersConfig / ModelsConfig / McpServersConfig
\* (config.rs 193-232): version 1, empty list.
DefaultDoc == [version |-> 1, items |-> <<>>]

\* What a file holds: nothing (no file), bytes that are no JSON document of
\* the type, or the pretty JSON text of a document.
MissingFile == [tag |-> "missing", version |-> 0, items |-> <<>>]
CorruptFile == [tag |-> "corrupt", version |-> 0, items |-> <<>>]

\* serde_json::to_string_pretty(config) (config.rs 245).
to_string_pretty(doc) == [tag |-> "json", version |-> doc.version, items |-> doc.items]

\* read_config (config.rs 235-240): the parsed document, or the default when
\* the file cannot be read or parsed.
read_config(content) ==
    IF content.tag = "json"
    THEN [version |-> content.version, items |-> content.items]
    ELSE DefaultDoc

(***************************************************************************)
(* The collection commands, as functions of the document read.  Each       *)
(* answers [error, items]: error "none" and the list to write back, or the *)
(* error it returns without writing.                                       *)
(***************************************************************************)
Accept(items) == [error |-> "none", items |-> items]
Reject(error, items) == [error |-> error, items |-> items]

\* iter().any(|p| p.id == id)
AnyId(items, id) == \E i \in DOMAIN items : items[i].id = id

\* iter().any(|s| s.name == name)
AnyName(items, name) == \E i \in DOMAIN items : items[i].name = name

\* iter().position(|p| p.id == id): the first index, 0 for Option::None.
Position(items, id) ==
    IF AnyId(items, id)
    THEN CHOOSE i \in DOMAIN items :
            /\ items[i].id = id
            /\ \A j \in 1..(i - 1) : items[j].id # id
    ELSE 0

\* retain(|p| p.id != id)
RECURSIVE Retain(_, _)
Retain(items, id) ==
    IF items = <<>> THEN <<>>
    ELSE IF Head(items).id = id THEN Retain(Tail(items), id)
    ELSE <<Head(items)>> \o Retain(Tail(items), id)

\* add_provider (commands.rs 111-126).
\* (add_provider_unchecked: the id check is missing.)
add_provider_unchecked(items, provider) == Accept(Append(items, provider))

add_provider(items, provider) ==
    IF AnyId(items, provider.id)
    THEN Reject("id_exists", items)
    ELSE Accept(Append(items, provider))

\* update_provider (commands.rs 129-142).
update_provider(items, provider) ==
    LET index == Position(items, provider.id)
    IN  IF index # 0
        THEN Accept([items EXCEPT ![index] = provider])
        ELSE Reject("not_found", items)

\* delete_provider (commands.rs 145-159).
\* (delete_provider_idempotent: deleting an id that is not there is accepted.)
delete_provider_idempotent(items, id) == Accept(Retain(items, id))

delete_provider(items, id) ==
    LET retained == Retain(items, id)
    IN  IF Len(retained) = Len(items)
        THEN Reject("not_found", retained)
        ELSE Accept(retained)

\* add_model (commands.rs 233-247).
\* (add_model_upsert: an id already present is overwritten instead of refused.)
add_model_upsert(items, model) ==
    IF AnyId(items, model.id)
    THEN Accept([items EXCEPT ![Position(items, model.id)] = model])
    ELSE Accept(Append(items, model))

add_model(items, model) ==
    IF AnyId(items, model.id)
    THEN Reject("id_exists", items)
    ELSE Accept(Append(items, model))

\* update_model (commands.rs 250-263).
update_model(items, model) ==
    LET index == Position(items, model.id)
    IN  IF index # 0
        THEN Accept([items EXCEPT ![index] = model])
        ELSE Reject("not_found", items)

\* delete_model (commands.rs 266-280).
delete_model(items, id) ==
    LET retained == Retain(items, id)
    IN  IF Len(retained) = Len(items)
        THEN Reject("not_found", retained)
        ELSE Accept(retained)

\* add_mcp_server (commands.rs 292-312).
add_mcp_server(items, server) ==
    IF AnyId(items, server.id)
    THEN Reject("id_exists", items)
    ELSE IF AnyName(items, server.name)
    THEN Reject("name_exists", items)
    ELSE Accept(Append(items, server))

\* update_mcp_server (commands.rs 315-333).
\* (update_mcp_server_any_name: the name check does not leave out the server
\* itself.)
update_mcp_server_any_name(items, server) ==
    LET index == Position(items, server.id)
    IN  IF index # 0
        THEN IF AnyName(items, server.name)
             THEN Reject("name_exists", items)
             ELSE Accept([items EXCEPT ![index] = server])
        ELSE Reject("not_found", items)

update_mcp_server(items, server) ==
    LET index == Position(items, server.id)
    IN  IF index # 0
        THEN IF \E i \in DOMAIN items :
                    items[i].id # server.id /\ items[i].name = server.name
             THEN Reject("name_exists", items)
             ELSE Accept([items EXCEPT ![index] = server])
        ELSE Reject("not_found", items)

\* delete_mcp_server, after the stop request (commands.rs 353-365).
delete_mcp_server(items, id) ==
    LET retained == Retain(items, id)
    IN  IF Len(retained) = Len(items)
        THEN Reject("not_found", retained)
        ELSE Accept(retained)

\* The command c = [op, doc, id, name] applied to the list read.
Apply(c, items) ==
    CASE c.doc = "providers" /\ c.op = "add" -> add_provider(items, Entry(c.id, c.name))
      [] c.doc = "providers" /\ c.op = "update" -> update_provider(items, Entry(c.id, c.name))
      [] c.doc = "providers" /\ c.op = "delete" -> delete_provider(items, c.id)
      [] c.doc = "models" /\ c.op = "add" -> add_model(items, Entry(c.id, c.name))
      [] c.doc = "models" /\ c.op = "update" -> update_model(items, Entry(c.id, c.name))
      [] c.doc = "models" /\ c.op = "delete" -> delete_model(items, c.id)
      [] c.doc = "mcp_servers" /\ c.op = "add" -> add_mcp_server(items, Entry(c.id, c.name))
      [] c.doc = "mcp_servers" /\ c.op = "update" -> update_mcp_server(items, Entry(c.id, c.name))
      [] c.doc = "mcp_servers" /\ c.op = "delete" -> delete_mcp_server(items, c.id)

\* The commands the UI can invoke; a delete takes an id only.
NoName == 0
Commands ==
    [op : {"add", "update"}, doc : Docs, id : Ids, name : Names]
        \cup [op : {"delete"}, doc : Docs, id : Ids, name : {NoName}]

NoCommand == [op |-> "none", doc |-> "none", id |-> 0, name |-> NoName]

(***************************************************************************)
(* A collection command on worker t: read the document, check and change   *)
(* it in memory, write it back.  No lock is taken: other commands run      *)
(* between the read and the write.                                         *)
(***************************************************************************)
\* The command returns r to the UI; its locals are dropped.  Of the command
\* the record of the last response keeps which one it was and its id.
Respond(t, c, r) ==
    /\ cres' = [cmd |-> [c EXCEPT !.name = NoName], response |-> r]
    /\ cpc' = [cpc EXCEPT ![t] = "idle"]
    /\ cmd' = [cmd EXCEPT ![t] = NoCommand]
    /\ config' = [config EXCEPT ![t] = DefaultDoc]

\* let mut config = read_config(path); the checks; the change in memory.
\* A refused command returns here, before any write.
ReadAndChange(t, c) ==
    LET doc == read_config(files[c.doc])
        out == Apply(c, doc.items)
    IN  IF out.error = "none"
        THEN /\ config' = [config EXCEPT ![t] = [doc EXCEPT !.items = out.items]]
             /\ cmd' = [cmd EXCEPT ![t] = c]
             /\ cpc' = [cpc EXCEPT ![t] = "write"]
             /\ UNCHANGED cres
        ELSE Respond(t, c, ApiError(out.error))

\* The UI invokes command c.  A command reads its document at once, except
\* delete_mcp_server, which first asks the bridge service to stop the server
\* (commands.rs 338-351).  The three documents are separate files and a
\* command touches only its own, so one behaviour exercises one document.
\* The pool's workers are interchangeable: the invocation goes to the first
\* idle one.
Invoke(t, c) ==
    /\ ncmds < MaxCommands
    /\ cpc[t] = "idle"
    /\ \A u \in 1..(t - 1) : cpc[u] # "idle"
    /\ \A u \in Workers : cmd[u].doc \in {"none", c.doc}
    /\ cres.cmd.doc \in {"none", c.doc}
    /\ ncmds' = ncmds + 1
    /\ IF c.doc = "mcp_servers" /\ c.op = "delete"
       THEN /\ cmd' = [cmd EXCEPT ![t] = c]
            /\ cpc' = [cpc EXCEPT ![t] = "stop_request"]
            /\ UNCHANGED <<config, cres>>
       ELSE ReadAndChange(t, c)
    /\ UNCHANGED files
    /\ UNCHANGED outsideStore

\* delete_mcp_server: the stop request is over (its outcome is ignored) and
\* the command goes on to read the document (353-360).
StopRequestDone(t) ==
    /\ cpc[t] = "stop_request"
    /\ ReadAndChange(t, cmd[t])
    /\ UNCHANGED <<files, ncmds>>
    /\ UNCHANGED outsideStore

\* write_config(path, &config) (config.rs 243-249): the whole file is
\* replaced by the document's text; when it fails the file is as it was or
\* holds a truncated text.
\* (WriteBackMerged: the write keeps the entries the file holds that the
\* command did not read.)
WriteBackMerged(t) ==
    /\ cpc[t] = "write"
    /\ \/ /\ LET stored == read_config(files[cmd[t].doc]).items
                 kept == SelectSeq(stored,
                            LAMBDA e : ~AnyId(config[t].items, e.id)
                                         /\ cmd[t].id # e.id)
             IN  files' = [files EXCEPT ![cmd[t].doc] =
                             to_string_pretty(
                                 [config[t] EXCEPT !.items = kept \o @])]
          /\ Respond(t, cmd[t], ApiSuccess)
       \/ /\ files' \in {files, [files EXCEPT ![cmd[t].doc] = CorruptFile]}
          /\ Respond(t, cmd[t], ApiError("write_failed"))
    /\ UNCHANGED ncmds
    /\ UNCHANGED outsideStore

WriteBack(t) ==
    /\ cpc[t] = "write"
    /\ \/ /\ files' = [files EXCEPT ![cmd[t].doc] = to_string_pretty(config[t])]
          /\ Respond(t, cmd[t], ApiSuccess)
       \/ /\ files' \in {files, [files EXCEPT ![cmd[t].doc] = CorruptFile]}
          /\ Respond(t, cmd[t], ApiError("write_failed"))
    /\ UNCHANGED ncmds
    /\ UNCHANGED outsideStore

\* No configuration file exists before the first write.
StoreInit ==
    /\ files = [d \in Docs |-> MissingFile]
    /\ cpc = [t \in Workers |-> "idle"]
    /\ cmd = [t \in Workers |-> NoCommand]
    /\ config = [t \in Workers |-> DefaultDoc]
    /\ cres = [cmd |-> NoCommand, response |-> NoResponse]
    /\ ncmds = 0
    /\ answers = {}

StoreNext ==
    \/ \E t \in Workers : \E c \in Commands : Invoke(t, c) /\ UNCHANGED answers
    \/ \E t \in Workers : StopRequestDone(t) /\ UNCHANGED answers
    \/ \E t \in Workers : WriteBack(t) /\ UNCHANGED answers

\* A collection command returns in this step: from its write, or at once
\* when it is refused.
Returned ==
    \/ \E t \in Workers : cpc[t] # "idle" /\ cpc'[t] = "idle"
    \/ ncmds' = ncmds + 1 /\ cpc' = cpc

\* The commands on providers.json, with every answer kept.
ProviderCommands == {c \in Commands : c.doc = "providers"}

Collect == answers' = IF Returned THEN answers \cup {cres'} ELSE answers

ProvidersNext ==
    \/ \E t \in Workers : \E c \in ProviderCommands : Invoke(t, c) /\ Collect
    \/ \E t \in Workers : WriteBack(t) /\ Collect

(***************************************************************************)
(* config.json: the BridgeConfig document (config.rs 156-184), its JSON    *)
(* text, and the commands get_config, save_config and update_config        *)
(* (commands.rs 48-99).                                                    *)
(***************************************************************************)
\* serde_json::Value, as far as the commands tell values apart: null, a
\* boolean, an integer, a number with a fraction, a string.  Absent is the
\* Option::None that Value::get answers for a key the object does not have.
JNull == [t |-> "null", n |-> 0, s |-> "", b |-> FALSE]
JBool(b) == [t |-> "bool", n |-> 0, s |-> "", b |-> b]
JNumber(n) == [t |-> "number", n |-> n, s |-> "", b |-> FALSE]
JFloat == [t |-> "float", n |-> 0, s |-> "", b |-> FALSE]
\* The integer 2^64, which no u64 holds: the Value keeps it as a float.
JIntegerBeyondU64 == [t |-> "float", n |-> 0, s |-> "18446744073709551616", b |-> FALSE]
JString(s) == [t |-> "string", n |-> 0, s |-> s, b |-> FALSE]
Absent == [t |-> "absent", n |-> 0, s |-> "", b |-> FALSE]

\* Value::as_u64, as_str, as_bool: Option as a sequence of at most one value.
\* as_u64 answers only for a non-negative integer.
as_u64(v) == IF v.t = "number" /\ v.n >= 0 THEN <<v.n>> ELSE <<>>
as_str(v) == IF v.t = "string" THEN <<v.s>> ELSE <<>>
as_bool(v) == IF v.t = "bool" THEN <<v.b>> ELSE <<>>

\* `port as u16` (commands.rs 71): the low 16 bits.
\* (as_u16_saturating: a value too large becomes the largest port.)
as_u16_saturating(n) == IF n > 2 ^ 16 - 1 THEN 2 ^ 16 - 1 ELSE n

as_u16(n) == n % (2 ^ 16)

\* impl Default for BridgeConfig (config.rs 170-184).
BridgeConfigDefault ==
    [version |-> 1,
     port |-> 3001,
     host |-> "localhost",
     log_level |-> "info",
     default_provider_id |-> <<>>,
     default_chat_model_id |-> <<>>,
     default_embedding_model_id |-> <<>>,
     auto_start |-> TRUE,
     minimize_to_tray |-> TRUE]

\* The keys of the JSON object of a BridgeConfig (rename_all = "camelCase").
ConfigKeys ==
    {"version", "port", "host", "logLevel", "defaultProviderId",
     "defaultChatModelId", "defaultEmbeddingModelId", "autoStart",
     "minimizeToTray"}

\* Serialize for Option<String>: null or the string.
OptionToJson(o) == IF o = <<>> THEN JNull ELSE JString(o[1])

\* What config.json holds: nothing (no file), a file that cannot be read,
\* bytes that are no JSON text, or the text of a JSON object.
EmptyObject == [k \in ConfigKeys |-> Absent]
MissingConfig == [tag |-> "missing"]
UnreadableConfig == [tag |-> "unreadable"]
CorruptConfig == [tag |-> "corrupt"]

\* serde_json::to_string_pretty(&BridgeConfig) (config.rs 245, derive
\* Serialize at 156-168).
\* (to_string_pretty_snake_case: the keys are written as the fields are
\* named, without the camelCase renaming.)
to_string_pretty_snake_case(c) ==
    [tag |-> "json",
     obj |-> [EmptyObject EXCEPT
                !["version"] = JNumber(c.version),
                !["port"] = JNumber(c.port),
                !["host"] = JString(c.host)]]

to_string_pretty_BridgeConfig(c) ==
    [tag |-> "json",
     obj |-> [EmptyObject EXCEPT
                !["version"] = JNumber(c.version),
                !["port"] = JNumber(c.port),
                !["host"] = JString(c.host),
                !["logLevel"] = JString(c.log_level),
                !["defaultProviderId"] = OptionToJson(c.default_provider_id),
                !["defaultChatModelId"] = OptionToJson(c.default_chat_model_id),
                !["defaultEmbeddingModelId"] =
                    OptionToJson(c.default_embedding_model_id),
                !["autoStart"] = JBool(c.auto_start),
                !["minimizeToTray"] = JBool(c.minimize_to_tray)]]

\* Deserialize for the field types of BridgeConfig: an i32 and a u16 take an
\* integer in range, a String a string, a bool a boolean, and an
\* Option<String> also null and a missing key.
IsI32(v) == v.t = "number" /\ v.n >= -2147483647 - 1 /\ v.n <= 2147483647
IsU16(v) == v.t = "number" /\ v.n >= 0 /\ v.n < 2 ^ 16
IsOptionString(v) == v.t \in {"string", "null", "absent"}

\* serde_json::from_str::<BridgeConfig> (config.rs 237): the document, or
\* nothing when a field is missing or of another type.
from_str_BridgeConfig(obj) ==
    IF /\ IsI32(obj["version"])
       /\ IsU16(obj["port"])
       /\ obj["host"].t = "string"
       /\ obj["logLevel"].t = "string"
       /\ IsOptionString(obj["defaultProviderId"])
       /\ IsOptionString(obj["defaultChatModelId"])
       /\ IsOptionString(obj["defaultEmbeddingModelId"])
       /\ obj["autoStart"].t = "bool"
       /\ obj["minimizeToTray"].t = "bool"
    THEN <<[version |-> obj["version"].n,
            port |-> obj["port"].n,
            host |-> obj["host"].s,
            log_level |-> obj["logLevel"].s,
            default_provider_id |-> as_str(obj["defaultProviderId"]),
            default_chat_model_id |-> as_str(obj["defaultChatModelId"]),
            default_embedding_model_id |-> as_str(obj["defaultEmbeddingModelId"]),
            auto_start |-> obj["autoStart"].b,
            minimize_to_tray |-> obj["minimizeToTray"].b]>>
    ELSE <<>>

\* read_config::<BridgeConfig> (config.rs 235-240).
\* (read_config_or_port_zero: a file that cannot be used answers a document
\* of zero values instead of the default.)
read_config_or_port_zero(content) ==
    IF content.tag = "json" /\ from_str_BridgeConfig(content.obj) # <<>>
    THEN from_str_BridgeConfig(content.obj)[1]
    ELSE [BridgeConfigDefault EXCEPT !.version = 0, !.port = 0,
                                     !.auto_start = FALSE]

read_config_BridgeConfig(content) ==
    IF content.tag = "json" /\ from_str_BridgeConfig(content.obj) # <<>>
    THEN from_str_BridgeConfig(content.obj)[1]
    ELSE BridgeConfigDefault

\* The argument of update_config: a JSON object, as the value (or Absent) of
\* each key the command looks at and of one it does not know.
PatchKeys ==
    {"port", "host", "logLevel", "defaultProviderId", "defaultChatModelId",
     "defaultEmbeddingModelId", "autoStart", "minimizeToTray", "theme"}

NoPatch == [k \in PatchKeys |-> Absent]

\* The merge of update_config (commands.rs 69-93), field by field.
merge(current, patch) ==
    [current EXCEPT
        !.port = IF as_u64(patch["port"]) # <<>>
                 THEN as_u16(as_u64(patch["port"])[1]) ELSE @,
        !.host = IF as_str(patch["host"]) # <<>>
                 THEN as_str(patch["host"])[1] ELSE @,
        !.log_level = IF as_str(patch["logLevel"]) # <<>>
                      THEN as_str(patch["logLevel"])[1] ELSE @,
        !.default_provider_id =
            IF patch["defaultProviderId"] # Absent
            THEN as_str(patch["defaultProviderId"]) ELSE @,
        !.default_chat_model_id =
            IF patch["defaultChatModelId"] # Absent
            THEN as_str(patch["defaultChatModelId"]) ELSE @,
        !.default_embedding_model_id =
            IF patch["defaultEmbeddingModelId"] # Absent
            THEN as_str(patch["defaultEmbeddingModelId"]) ELSE @,
        !.auto_start = IF as_bool(patch["autoStart"]) # <<>>
                       THEN as_bool(patch["autoStart"])[1] ELSE @,
        !.minimize_to_tray = IF as_bool(patch["minimizeToTray"]) # <<>>
                             THEN as_bool(patch["minimizeToTray"])[1] ELSE @]

(***************************************************************************)
(* The inputs of the config commands.                                      *)
(***************************************************************************)
\* The JSON values update_config is given for a key.
PatchValues ==
    {JNull, JBool(TRUE), JBool(FALSE), JNumber(-1), JNumber(8080),
     JNumber(65535), JNumber(65536), JNumber(70000), JFloat,
     JIntegerBeyondU64, JString("a")}

\* The arguments of update_config: an object with no key of interest, with
\* one key, or with two keys (an integer and a string in either place).
Patches ==
    {NoPatch}
        \cup {[NoPatch EXCEPT ![k] = v] : k \in PatchKeys, v \in PatchValues}
        \cup {[NoPatch EXCEPT ![k[1]] = JNumber(8080), ![k[2]] = JString("a")] :
                k \in {kk \in PatchKeys \X PatchKeys : kk[1] # kk[2]}}

\* The arguments of save_config: the default document and one that differs
\* from it in every field.
SavedConfigs ==
    {BridgeConfigDefault,
     [version |-> 2,
      port |-> 8080,
      host |-> "a",
      log_level |-> "debug",
      default_provider_id |-> <<"p1">>,
      default_chat_model_id |-> <<"p1:m1">>,
      default_embedding_model_id |-> <<"p1:m2">>,
      auto_start |-> FALSE,
      minimize_to_tray |-> FALSE]}

\* What config.json may hold when the application starts, besides nothing:
\* an unreadable file, a damaged one, a JSON object of another shape (port
\* is a string), and a document written by an earlier run.
FilesAtStart ==
    {UnreadableConfig,
     CorruptConfig,
     [to_string_pretty_BridgeConfig(BridgeConfigDefault)
        EXCEPT !.obj["port"] = JString("3001")],
     to_string_pretty_BridgeConfig(
        [BridgeConfigDefault EXCEPT !.port = 8080,
                                    !.host = "a",
                                    !.default_provider_id = <<"p1">>,
                                    !.auto_start = FALSE])}

(***************************************************************************)
(* get_config, save_config, update_config (commands.rs 48-99).  get_config *)
(* is one read and save_config one write; update_config reads, merges and  *)
(* writes, and other commands may run between its read and its write.      *)
(***************************************************************************)
NoUpdate == [pc |-> "idle"]

NoConfigCall == [op |-> "none", response |-> NoResponse, data |-> <<>>]

\* ApiResponse<BridgeConfig> of command op: success(data) or error(message).
ConfigSuccess(op, data) == [op |-> op, response |-> ApiSuccess, data |-> <<data>>]
ConfigError(op, message) == [op |-> op, response |-> ApiError(message), data |-> <<>>]

\* config.json was put in place before the application's first command (by
\* an earlier run, by hand, or damaged on disk).
ConfigFileAtStart ==
    /\ ncfg = 0
    /\ cfgFile = MissingConfig
    /\ cfgFile' \in FilesAtStart
    /\ UNCHANGED <<upd, cfgCall, ncfg>>
    /\ UNCHANGED outsideConfig

\* get_config (commands.rs 49-53).
get_config ==
    /\ ncfg < MaxConfigCommands
    /\ ncfg' = ncfg + 1
    /\ cfgCall' = ConfigSuccess("get_config", read_config_BridgeConfig(cfgFile))
    /\ UNCHANGED <<cfgFile, upd>>
    /\ UNCHANGED outsideConfig

\* write_config(&get_config_path(), &c) for command op (config.rs 243-249):
\* the file is replaced by the text of c; when the write fails the file is
\* as it was or holds a truncated text, and the error is returned.
WriteConfig(op, c) ==
    \/ /\ cfgFile' = to_string_pretty_BridgeConfig(c)
       /\ cfgCall' = ConfigSuccess(op, c)
    \/ /\ cfgFile' \in {cfgFile, CorruptConfig}
       /\ cfgCall' = ConfigError(op, "write_failed")

\* save_config (commands.rs 56-62).
save_config(c) ==
    /\ ncfg < MaxConfigCommands
    /\ ncfg' = ncfg + 1
    /\ WriteConfig("save_config", c)
    /\ UNCHANGED upd
    /\ UNCHANGED outsideConfig

\* update_config (commands.rs 65-93): read the document and merge the
\* argument into it.
\* (update_config_last_good: on a damaged file the merge starts from the
\* document of an earlier run.)
update_config_last_good(patch) ==
    /\ ncfg < MaxConfigCommands
    /\ upd.pc = "idle"
    /\ ncfg' = ncfg + 1
    /\ upd' = [pc |-> "write",
               patch |-> patch,
               current |-> merge(IF cfgFile.tag = "corrupt"
                                 THEN [BridgeConfigDefault EXCEPT !.host = "a"]
                                 ELSE read_config_BridgeConfig(cfgFile), patch)]
    /\ UNCHANGED <<cfgFile, cfgCall>>
    /\ UNCHANGED outsideConfig

update_config(patch) ==
    /\ ncfg < MaxConfigCommands
    /\ upd.pc = "idle"
    /\ ncfg' = ncfg + 1
    /\ upd' = [pc |-> "write",
               patch |-> patch,
               current |-> merge(read_config_BridgeConfig(cfgFile), patch)]
    /\ UNCHANGED <<cfgFile, cfgCall>>
    /\ UNCHANGED outsideConfig

\* update_config (commands.rs 95-98): write the merged document and return it.
update_config_write ==
    /\ upd.pc = "write"
    /\ WriteConfig("update_config", upd.current)
    /\ upd' = NoUpdate
    /\ UNCHANGED ncfg
    /\ UNCHANGED outsideConfig

\* No config.json exists before the first write.
CfgInit ==
    /\ cfgFile = MissingConfig
    /\ upd = NoUpdate
    /\ cfgCall = NoConfigCall
    /\ ncfg = 0

CfgNext ==
    \/ ConfigFileAtStart
    \/ get_config
    \/ \E c \in SavedConfigs : save_config(c)
    \/ \E patch \in Patches : update_config(patch)
    \/ update_config_write

(***************************************************************************)
(* BridgeClient: the commands that send one HTTP request to the bridge     *)
(* service and make an ApiResponse of what comes back (commands.rs         *)
(* 369-580, 588-628, 828-961).                                             *)
(***************************************************************************)
ClientCommands ==
    {"get_mcp_server_status", "start_mcp_server", "stop_mcp_server",
     "restart_mcp_server", "get_mcp_server_tools", "get_logs",
     "validate_provider", "get_provider_models", "test_model",
     "get_bridge_status"}

\* The timeout, in seconds, of the client a command builds: NoTimeout for
\* reqwest::Client::new(), which sets none.
NoTimeout == 0

Timeout(c) ==
    CASE c = "get_bridge_status" -> 2
      [] c = "get_mcp_server_status" -> 5
      [] c \in {"validate_provider", "get_provider_models"} -> 30
      [] c = "test_model" -> 60
      [] OTHER -> NoTimeout

\* What a request meets: send() fails to connect, the timeout of the client
\* expires, or a response arrives with a status and a body.  The body is no
\* JSON text, a JSON object without the sub-field the command looks for, a
\* JSON array, or an object with the sub-field, of a shape the command can
\* or cannot decode.
ConnectError == [kind |-> "connect_error", status |-> 0, body |-> "none"]
TimedOut == [kind |-> "timeout", status |-> 0, body |-> "none"]
Response(status, body) == [kind |-> "response", status |-> status, body |-> body]

Statuses == {200, 404, 500}
Bodies == {"not_json", "lacks_field", "array", "field_bad", "field_ok"}

\* StatusCode::is_success: 200-299.
is_success(status) == status >= 200 /\ status <= 299

\* The data of an ApiResponse of a BridgeClient command, by kind: "true",
\* an empty list, a decoded list, a decoded result record, the data
\* sub-field as it came, the whole body as it came, or a BridgeStatus.
Data(kind) ==
    [kind |-> kind, running |-> FALSE, port |-> 0, url |-> <<>>, uptime |-> FALSE]

ClientSuccess(data) == [response |-> ApiSuccess, data |-> data]
ClientError(message) == [response |-> ApiError(message), data |-> Data("none")]

\* BridgeStatus (commands.rs 13-18); uptime says whether one is given.
BridgeStatus(running, r, uptime) ==
    [kind |-> "status", running |-> running, port |-> r.port,
     url |-> <<r.host, r.port>>, uptime |-> uptime]

\* The part all commands but get_bridge_status share: a transport error and
\* a status that is no success are errors.
Unanswered(http) ==
    IF http.kind # "response" THEN ClientError("unreachable")
    ELSE ClientError("http_status")

Answered(http) == http.kind = "response" /\ is_success(http.status)

\* get_mcp_server_status (commands.rs 380-409).
get_mcp_server_status(http) ==
    IF ~Answered(http) THEN Unanswered(http)
    ELSE CASE http.body = "not_json" -> ClientError("bad_body")
           [] http.body = "field_ok" -> ClientSuccess(Data("list"))
           [] http.body = "field_bad" -> ClientSuccess(Data("empty"))
           [] http.body = "array" -> ClientSuccess(Data("list"))
           [] http.body = "lacks_field" -> ClientSuccess(Data("empty"))

\* start_mcp_server, stop_mcp_server, restart_mcp_server (commands.rs 422-431,
\* 444-453, 466-475): the status decides, the body is not read.
start_mcp_server(http) ==
    IF ~Answered(http) THEN Unanswered(http) ELSE ClientSuccess(Data("true"))

\* get_mcp_server_tools (commands.rs 499-520) and get_logs (553-579).
\* (get_logs_strict: a body without the logs is an error.)
get_logs_strict(http) ==
    IF ~Answered(http) THEN Unanswered(http)
    ELSE CASE http.body = "not_json" -> ClientError("bad_body")
           [] http.body = "field_ok" -> ClientSuccess(Data("list"))
           [] http.body = "field_bad" -> ClientSuccess(Data("empty"))
           [] http.body \in {"array", "lacks_field"} -> ClientError("missing_data")

get_mcp_server_tools(http) ==
    IF ~Answered(http) THEN Unanswered(http)
    ELSE CASE http.body = "not_json" -> ClientError("bad_body")
           [] http.body = "field_ok" -> ClientSuccess(Data("list"))
           [] http.body = "field_bad" -> ClientSuccess(Data("empty"))
           [] http.body \in {"array", "lacks_field"} -> ClientSuccess(Data("empty"))

get_logs(http) ==
    IF ~Answered(http) THEN Unanswered(http)
    ELSE CASE http.body = "not_json" -> ClientError("bad_body")
           [] http.body = "field_ok" -> ClientSuccess(Data("list"))
           [] http.body = "field_bad" -> ClientSuccess(Data("empty"))
           [] http.body \in {"array", "lacks_field"} -> ClientSuccess(Data("empty"))

\* validate_provider (commands.rs 851-875) and test_model (936-960).
validate_provider(http) ==
    IF ~Answered(http) THEN Unanswered(http)
    ELSE CASE http.body = "not_json" -> ClientError("bad_body")
           [] http.body = "field_ok" -> ClientSuccess(Data("result"))
           [] http.body = "field_bad" -> ClientError("bad_body")
           [] http.body \in {"array", "lacks_field"} -> ClientError("missing_data")

test_model(http) ==
    IF ~Answered(http) THEN Unanswered(http)
    ELSE CASE http.body = "not_json" -> ClientError("bad_body")
           [] http.body = "field_ok" -> ClientSuccess(Data("result"))
           [] http.body = "field_bad" -> ClientError("bad_body")
           [] http.body \in {"array", "lacks_field"} -> ClientError("missing_data")

\* get_provider_models (commands.rs 892-914).
get_provider_models(http) ==
    IF ~Answered(http) THEN Unanswered(http)
    ELSE CASE http.body = "not_json" -> ClientError("bad_body")
           [] http.body \in {"field_ok", "field_bad"} -> ClientSuccess(Data("data"))
           [] http.body \in {"array", "lacks_field"} -> ClientSuccess(Data("body"))

\* get_bridge_status (commands.rs 598-627); r is the request, with the host
\* and port read from config.json.  The sub-field is an integer uptime.
\* (get_bridge_status_strict: a service that cannot be reached is an error.)
get_bridge_status_strict(http, r) ==
    IF http.kind # "response" THEN ClientError("unreachable")
    ELSE IF is_success(http.status)
         THEN ClientSuccess(BridgeStatus(TRUE, r, http.body = "field_ok"))
         ELSE ClientSuccess(BridgeStatus(FALSE, r, FALSE))

get_bridge_status(http, r) ==
    IF Answered(http)
    THEN ClientSuccess(BridgeStatus(TRUE, r, http.body = "field_ok"))
    ELSE ClientSuccess(BridgeStatus(FALSE, r, FALSE))

\* The ApiResponse command r.cmd makes of what its request met.
Decode(r, http) ==
    CASE r.cmd = "get_mcp_server_status" -> get_mcp_server_status(http)
      [] r.cmd \in {"start_mcp_server", "stop_mcp_server", "restart_mcp_server"}
            -> start_mcp_server(http)
      [] r.cmd = "get_mcp_server_tools" -> get_mcp_server_tools(http)
      [] r.cmd = "get_logs" -> get_logs(http)
      [] r.cmd = "validate_provider" -> validate_provider(http)
      [] r.cmd = "test_model" -> test_model(http)
      [] r.cmd = "get_provider_models" -> get_provider_models(http)
      [] r.cmd = "get_bridge_status" -> get_bridge_status(http, r)

NoRequest == [pc |-> "idle"]

NoClientCall == [cmd |-> "none"]

\* Command c is invoked: it reads config.json for the host and the port,
\* builds its client and sends the request.
ClientSend(c) ==
    /\ req.pc = "idle"
    /\ LET bridge_config == read_config_BridgeConfig(cfgFile)
       IN  req' = [pc |-> "sent",
                   cmd |-> c,
                   timeout |-> Timeout(c),
                   host |-> bridge_config.host,
                   port |-> bridge_config.port]
    /\ UNCHANGED hres
    /\ UNCHANGED outsideClient

\* The command returns what it makes of http.
ClientReturn(http) ==
    /\ req.pc = "sent"
    /\ hres' = [cmd |-> req.cmd,
                http |-> http,
                response |-> Decode(req, http).response,
                data |-> Decode(req, http).data]
    /\ req' = NoRequest
    /\ UNCHANGED outsideClient

\* send() returns Err: nothing listens at the URL.
ConnectFails == ClientReturn(ConnectError)

\* The timeout of the client expires before the response is complete: only
\* for a client that was built with one.
RequestTimesOut ==
    /\ req.pc = "sent"
    /\ req.timeout # NoTimeout
    /\ ClientReturn(TimedOut)

\* The bridge service answers.  (It may also accept the connection and
\* never answer: then none of these steps happens.)
ServerAnswers(status, body) == ClientReturn(Response(status, body))

ClientInit ==
    /\ req = NoRequest
    /\ hres = NoClientCall

ClientNext ==
    \/ \E c \in ClientCommands : ClientSend(c)
    \/ ConnectFails
    \/ RequestTimesOut
    \/ \E status \in Statuses : \E body \in Bodies : ServerAnswers(status, body)

\* get_bridge_status alone.
StatusNext ==
    \/ ClientSend("get_bridge_status")
    \/ ConnectFails
    \/ RequestTimesOut
    \/ \E status \in Statuses : \E body \in Bodies : ServerAnswers(status, body)

(***************************************************************************)
(* Where and how start_bridge_service launches the service (commands.rs    *)
(* 655-659, 712-770).  A path is the sequence of its components.           *)
(***************************************************************************)
\* Path::join.
join(path, name) == Append(path, name)

\* A value of BRIDGE_SERVICE_PATH, the resource directory, "../.." and ".".
OverridePath == <<"override">>
ResourceDir == <<"resources">>
dev_path == <<"..", "..">>
CurrentDir == <<".">>

\* office-local-bridge-win.exe on Windows.
exe_name == "office-local-bridge"

\* The directories a service may be launched from, and the paths whose
\* existence the code asks for.
ServicePaths == {OverridePath, join(ResourceDir, "bridge-service"), dev_path, CurrentDir}

Artifacts(service_path) ==
    {join(join(service_path, "dist"), exe_name),
     join(join(service_path, "dist"), "server.js")}

Checked ==
    {OverridePath, join(ResourceDir, "bridge-service"),
     join(join(dev_path, "src"), "server.ts")}
      \cup UNION {Artifacts(d) : d \in ServicePaths}

\* The environments the application may start in: the variable is set or
\* not, resource_dir() answers or fails, and any of the paths exist; what is
\* inside a directory exists only if the directory does.
Environments ==
    {e \in [env : {<<>>, <<OverridePath>>},
            resource_dir : {<<>>, <<ResourceDir>>},
            exists : SUBSET Checked] :
        \A d \in {OverridePath, join(ResourceDir, "bridge-service")} :
            d \notin e.exists => Artifacts(d) \cap e.exists = {}}

\* Path::exists.
exists(e, path) == path \in e.exists

\* get_bridge_service_path (commands.rs 713-735).
get_bridge_service_path(e) ==
    IF e.env # <<>> THEN e.env[1]
    ELSE IF /\ e.resource_dir # <<>>
            /\ exists(e, join(e.resource_dir[1], "bridge-service"))
         THEN join(e.resource_dir[1], "bridge-service")
    ELSE IF exists(e, join(join(dev_path, "src"), "server.ts")) THEN dev_path
    ELSE CurrentDir

\* get_bridge_start_command (commands.rs 738-770): (cmd, args, cwd).
get_bridge_start_command(e, service_path) ==
    LET exe_path == join(join(service_path, "dist"), exe_name)
        script_path == join(join(service_path, "dist"), "server.js")
    IN  IF exists(e, exe_path)
        THEN [cmd |-> exe_path, args |-> <<>>, cwd |-> service_path]
        ELSE IF exists(e, script_path)
        THEN [cmd |-> <<"node">>, args |-> <<script_path>>, cwd |-> service_path]
        ELSE [cmd |-> <<"npm">>, args |-> <<"run", "dev">>, cwd |-> service_path]

\* Before anything is known of it the environment is bare: no variable, no
\* resource directory, none of the paths.
BareEnvironment == [env |-> <<>>, resource_dir |-> <<>>, exists |-> {}]

NoLaunch == [pc |-> "none"]

\* The environment the application finds itself in.
EnvironmentAtStart ==
    /\ launch = NoLaunch
    /\ disk = BareEnvironment
    /\ disk' \in Environments
    /\ UNCHANGED launch
    /\ UNCHANGED outsideLaunch

\* start_bridge_service resolves the service path and the start command
\* (commands.rs 655-659).
ResolveLaunch ==
    /\ LET service_path == get_bridge_service_path(disk)
       IN  launch' = [pc |-> "resolved",
                      service_path |-> service_path,
                      command |-> get_bridge_start_command(disk, service_path)]
    /\ UNCHANGED disk
    /\ UNCHANGED outsideLaunch

LaunchInit ==
    /\ disk = BareEnvironment
    /\ launch = NoLaunch

LaunchNext == EnvironmentAtStart \/ ResolveLaunch

(***************************************************************************)
(* Specifications.                                                         *)
(***************************************************************************)
\* .manage(BridgeProcessState(Mutex::new(None))) (lib.rs 24).
SupInit ==
    /\ process_guard = None
    /\ mutexOwner = NoWorker
    /\ procs = <<>>
    /\ spc = [t \in Workers |-> "idle"]
    /\ sres = [t \in Workers |-> NoResponse]
    /\ calls = [t \in Workers |-> <<>>]
    /\ starts = 0

SupNext ==
    \/ \E t \in Workers : StartCall(t)
    \/ \E t \in Workers : StartLock(t)
    \/ \E t \in Workers : StartProbe(t)
    \/ \E t \in Workers : StartSpawn(t)
    \/ \E t \in Workers : StopCall(t)
    \/ \E t \in Workers : StopLock(t)
    \/ \E t \in Workers : StopKill(t)
    \/ \E t \in Workers : StopWait(t)
    \/ \E t \in Workers : StopClear(t)
    \/ \E p \in DOMAIN procs : ChildExit(p)

Init == SupInit /\ StoreInit /\ CfgInit /\ ClientInit /\ LaunchInit

Next == SupNext \/ StoreNext \/ CfgNext \/ ClientNext \/ LaunchNext

\* The whole backend.
Spec == Init /\ [][Next]_vars

\* The supervisor commands alone, and the collection commands alone.
SpecSupervisor == Init /\ [][SupNext]_vars

SpecStore == Init /\ [][StoreNext]_vars

\* The commands on config.json alone.
SpecConfig == Init /\ [][CfgNext]_vars

\* The four configuration documents, as one command after another reads and
\* writes them (the interleavings of the collection commands are SpecStore's).
\* The files are separate and a command works on its own file only, so one
\* behaviour exercises the collection documents or config.json.
DocumentsNext ==
    \/ /\ ncfg = 0
       /\ cfgFile = MissingConfig
       /\ UNCHANGED answers
       /\ \/ \E c \in Commands : Invoke(1, c)
          \/ StopRequestDone(1)
          \/ WriteBack(1)
    \/ /\ ncmds = 0
       /\ CfgNext

SpecDocuments == Init /\ [][DocumentsNext]_vars

\* The BridgeClient commands, whatever config.json holds at the start.  The
\* timer of a client's timeout is the one thing sure to happen: the bridge
\* service may never answer.
SpecClient == Init /\ [][ClientNext \/ ConfigFileAtStart]_vars

SpecClientLive == SpecClient /\ WF_vars(RequestTimesOut)

\* get_bridge_status next to the supervisor commands of one worker: the
\* status request is in flight while the service is started, stopped or
\* exits.
SupervisorOf(t) ==
    \/ StartCall(t)
    \/ StartLock(t)
    \/ StartProbe(t)
    \/ StartSpawn(t)
    \/ StopCall(t)
    \/ StopLock(t)
    \/ StopKill(t)
    \/ StopWait(t)
    \/ StopClear(t)
    \/ \E p \in DOMAIN procs : ChildExit(p)

StatusOrSupervisorNext == SupervisorOf(1) \/ StatusNext \/ ConfigFileAtStart

SpecStatus == Init /\ [][StatusOrSupervisorNext]_vars

\* The provider commands of all workers, with the answers the UI received.
SpecProviders == Init /\ [][ProvidersNext]_vars

\* The resolution of the launch location and command, in every environment.
SpecLaunch == Init /\ [][LaunchNext]_vars

(***************************************************************************)
(* Properties of the supervisor.                                           *)
(***************************************************************************)
\* Worker t's command issued the OS call (with the outcome) c in this step.
Issued(t, c) == calls'[t] = Append(calls[t], c)

\* The entries of a call log that are spawn attempts.
SpawnAttempts(log) == {i \in DOMAIN log : log[i] \in {"spawn_ok", "spawn_err"}}

\* C1: in every reachable state at most one spawned bridge-service process
\* is alive, and a live process is the one the supervisor's single handle
\* names (so the supervisor never loses track of a live child).
C1_SingleInstance ==
    /\ Cardinality(Live) <= 1
    /\ \A p \in Live : process_guard = p
    /\ process_guard \in {None} \cup DOMAIN procs

\* A second process runs after the first exited, while another command is in
\* flight.
C1_Witness ==
    /\ Len(procs) >= 2
    /\ process_guard = 2
    /\ procs[1] = "exited"
    /\ procs[2] = "running"
    /\ \E t \in Workers : spc[t] \in {"start_lock", "stop_lock"}

\* What a start does with a tracked handle, and with the spawn that follows:
\* the steps of worker t out of start_probe and out of start_spawn.
StartOnLive(t) ==
    /\ sres'[t] = ApiError("already_running")
    /\ spc'[t] = "idle"
    /\ SpawnAttempts(calls'[t]) = {}
    /\ process_guard' = process_guard
    /\ procs' = procs

StartOnExited(t) ==
    /\ process_guard' = None
    /\ spc'[t] = "start_spawn"
    /\ procs' = procs

StartSpawns(t) ==
    (spc[t] = "start_spawn" /\ spc'[t] # "start_spawn")
        => /\ Cardinality(SpawnAttempts(calls'[t])) = 1
           /\ Len(procs') > Len(procs)
                => /\ process_guard' = Len(procs')
                   /\ procs'[process_guard'] = "running"
                   /\ sres'[t] = ApiSuccess

\* C2 (as stated): a start called while the tracked process is alive reports
\* already-running, spawns nothing and leaves handle and process untouched;
\* called after it exited, it discards the stale handle and spawns, and a
\* successful spawn stores the new handle and reports success.
C2_StartByProcessState ==
    [][\A t \in Workers :
        /\ (spc[t] = "start_probe" /\ spc'[t] # "start_probe"
              /\ process_guard # None)
            => IF procs[process_guard] # "exited"
               THEN StartOnLive(t)
               ELSE StartOnExited(t)
        /\ StartSpawns(t)
    ]_vars

\* C2 (amended): the same for every start whose probe answers, that is,
\* whose try_wait did not itself fail.
C2_StartProbesLiveness ==
    [][\A t \in Workers :
        /\ (spc[t] = "start_probe" /\ spc'[t] # "start_probe"
              /\ process_guard # None /\ ~Issued(t, "try_wait_err"))
            => IF procs[process_guard] # "exited"
               THEN StartOnLive(t)
               ELSE StartOnExited(t)
        /\ StartSpawns(t)
    ]_vars

\* One worker's start was refused because the child was alive, another's
\* replaced the handle of an exited child.
C2_Witness ==
    \E t, u \in Workers :
        /\ spc[t] = "idle" /\ spc[u] = "idle"
        /\ calls[t] = <<"try_wait_running">>
        /\ sres[t] = ApiError("already_running")
        /\ calls[u] = <<"try_wait_exited", "spawn_ok">>
        /\ sres[u] = ApiSuccess
        /\ process_guard # None

\* C3: while a stop waits for the child to exit, the mutex is free, so that
\* a start or stop blocked on lock() can go on.
C3_LockFreeDuringWait ==
    \A t, u \in Workers :
        (spc[t] = "stop_wait" /\ spc[u] \in {"start_lock", "stop_lock"})
            => mutexOwner = NoWorker

\* C4: a stop returns success only with the tracked process exited and the
\* handle cleared, and a stop clears the handle only after its wait returned.
C4_StopWaitsThenClears ==
    [][\A t \in Workers :
        /\ (spc[t] \in {"stop_kill", "stop_wait", "stop_clear"}
              /\ spc'[t] = "idle" /\ sres'[t].success)
            => /\ process_guard # None
               /\ procs'[process_guard] = "exited"
               /\ process_guard' = None
        /\ (spc[t] \in {"stop_kill", "stop_wait", "stop_clear"}
              /\ spc'[t] # spc[t] /\ process_guard # process_guard')
            => /\ calls[t] = <<"kill", "wait">>
               /\ procs[process_guard] = "exited"
               /\ process_guard' = None
    ]_vars

\* A stop has returned success after killing and reaping the child.
C4_Witness ==
    \E t \in Workers :
        /\ spc[t] = "idle"
        /\ sres[t] = ApiSuccess
        /\ calls[t] = <<"kill", "wait">>
        /\ process_guard = None
        /\ Live = {}

\* C5: a stop that finds no handle reports not-running, has issued no OS
\* call, and leaves the supervisor idle and the process table as it was.
C5_StopWhenIdle ==
    [][\A t \in Workers :
        (spc[t] = "stop_kill" /\ spc'[t] # "stop_kill" /\ process_guard = None)
            => /\ sres'[t] = ApiError("not_running")
               /\ spc'[t] = "idle"
               /\ calls'[t] = <<>>
               /\ process_guard' = None
               /\ procs' = procs
    ]_vars

\* A stop found nothing to stop after an earlier process had been stopped.
C5_Witness ==
    \E t \in Workers :
        /\ spc[t] = "idle"
        /\ sres[t] = ApiError("not_running")
        /\ calls[t] = <<>>
        /\ Len(procs) >= 1

\* C6: when try_wait itself fails, the start returns an error, issues no
\* spawn, and leaves the handle and the process table unchanged.
C6_ProbeFailure ==
    [][\A t \in Workers :
        Issued(t, "try_wait_err")
            => /\ spc'[t] = "idle"
               /\ ~sres'[t].success
               /\ sres'[t].error = "probe_failed"
               /\ SpawnAttempts(calls'[t]) = {}
               /\ process_guard' = process_guard
               /\ process_guard' # None
               /\ procs' = procs
    ]_vars

\* A start has returned the probe's error with the handle still stored.
C6_Witness ==
    \E t \in Workers :
        /\ spc[t] = "idle"
        /\ calls[t] = <<"try_wait_err">>
        /\ sres[t] = ApiError("probe_failed")
        /\ process_guard # None

\* C7: a rejected spawn returns the spawn error after exactly one attempt
\* and leaves no handle stored and no new process; an accepted spawn has
\* stored the handle of the new process when success is returned.
C7_SpawnOutcome ==
    [][\A t \in Workers :
        /\ Issued(t, "spawn_err")
            => /\ spc'[t] = "idle"
               /\ sres'[t] = ApiError("spawn_failed")
               /\ Cardinality(SpawnAttempts(calls'[t])) = 1
               /\ process_guard' = None
               /\ procs' = procs
        /\ Issued(t, "spawn_ok")
            => /\ spc'[t] = "idle"
               /\ sres'[t] = ApiSuccess
               /\ Cardinality(SpawnAttempts(calls'[t])) = 1
               /\ process_guard' = Len(procs')
               /\ Len(procs') = Len(procs) + 1
    ]_vars

\* A spawn has been rejected right after a stale handle was discarded.
C7_Witness ==
    \E t \in Workers :
        /\ spc[t] = "idle"
        /\ calls[t] = <<"try_wait_exited", "spawn_err">>
        /\ sres[t] = ApiError("spawn_failed")
        /\ process_guard = None

(***************************************************************************)
(* Properties of the collection commands.                                  *)
(***************************************************************************)
\* The list a document's file stores, as the next read would see it.
Stored(d) == read_config(files[d]).items

UniqueIds(items) ==
    \A i, j \in DOMAIN items : i # j => items[i].id # items[j].id

UniqueNames(items) ==
    \A i, j \in DOMAIN items : i # j => items[i].name # items[j].name

\* The worker an invocation goes to, and the command invoked in this step
\* (an accepted command is the worker's current one, a refused command is
\* the one just answered).
Dispatched == CHOOSE w \in Workers :
                /\ cpc[w] = "idle"
                /\ \A u \in 1..(w - 1) : cpc[u] # "idle"

InvokedNow ==
    IF cpc'[Dispatched] = "idle" THEN cres'.cmd ELSE cmd'[Dispatched]

\* C8: whatever commands ran and however their reads and writes interleaved,
\* no stored collection holds two entries with the same id.
C8_StoredIdsUnique == \A d \in Docs : UniqueIds(Stored(d))

\* A file holds two entries while another worker still holds the older list
\* it read and is about to write it.
C8_Witness ==
    \E d \in Docs : \E t \in Workers :
        /\ Len(Stored(d)) = 2
        /\ cpc[t] = "write"
        /\ cmd[t].doc = d
        /\ config[t].items # Stored(d)
        /\ cres.response.success

\* C9: no two stored providers have the same name.
C9_ProviderNamesUnique == UniqueNames(Stored("providers"))

\* C10: an add whose id is in the stored collection it reads returns the
\* id-exists error at once, without reaching the write, the file stays as it
\* was and holds exactly one entry with that id.
C10_AddExistingId ==
    [][(ncmds' = ncmds + 1
          /\ InvokedNow.op = "add"
          /\ AnyId(Stored(InvokedNow.doc), InvokedNow.id))
        => /\ cpc'[Dispatched] = "idle"
           /\ cres'.cmd.op = "add"
           /\ cres'.response = ApiError("id_exists")
           /\ files' = files
           /\ Cardinality({i \in DOMAIN Stored(InvokedNow.doc) :
                             Stored(InvokedNow.doc)[i].id = InvokedNow.id}) = 1
    ]_vars

\* The second add of an id has been refused and the file holds the entry of
\* the first.
C10_Witness ==
    /\ cres.cmd.op = "add"
    /\ cres.response = ApiError("id_exists")
    /\ \A t \in Workers : cpc[t] = "idle"
    /\ Cardinality({i \in DOMAIN Stored(cres.cmd.doc) :
                      Stored(cres.cmd.doc)[i].id = cres.cmd.id}) = 1

\* Worker t's command reads its document in this step: at once when it is
\* invoked, or after the stop request of delete_mcp_server; and the command
\* that did.
ReadStep(t) ==
    \/ /\ ncmds' = ncmds + 1
       /\ t = Dispatched
       /\ cpc'[t] # "stop_request"
    \/ /\ cpc[t] = "stop_request"
       /\ cpc'[t] # "stop_request"

CommandOf(t) == IF cpc'[t] = "idle" THEN cres'.cmd ELSE cmd'[t]

\* C11: an update or delete whose id is not in the collection it reads
\* returns the not-found error without reaching the write, and the stored
\* collection stays as it was (providers, models and MCP servers alike).
C11_AbsentIdNotFound ==
    [][\A t \in Workers :
        (ReadStep(t)
           /\ CommandOf(t).op \in {"update", "delete"}
           /\ ~AnyId(Stored(CommandOf(t).doc), CommandOf(t).id))
        => /\ cpc'[t] = "idle"
           /\ cres'.response = ApiError("not_found")
           /\ files' = files
    ]_vars

\* A delete of an id that a non-empty collection does not hold was refused.
C11_Witness ==
    /\ cres.cmd.op = "delete"
    /\ cres.response = ApiError("not_found")
    /\ Len(Stored(cres.cmd.doc)) >= 1
    /\ ~AnyId(Stored(cres.cmd.doc), cres.cmd.id)
    /\ \A t \in Workers : cpc[t] = "idle"

\* Another server than `server` in the list has its name.
NameTaken(items, server) ==
    \E i \in DOMAIN items :
        items[i].id # server.id /\ items[i].name = server.name

\* C12: add_mcp_server and update_mcp_server called with a name that another
\* stored server has are refused with an error and nothing is written;
\* update_mcp_server called with the server's own current name is accepted
\* and goes on to write the collection; and no two stored MCP servers ever
\* have the same name.
C12_McpServerNames ==
    /\ [](UniqueNames(Stored("mcp_servers")))
    /\ [][(ncmds' = ncmds + 1
            /\ InvokedNow.doc = "mcp_servers"
            /\ InvokedNow.op \in {"add", "update"})
          => \A n \in Names :
               LET c == [InvokedNow EXCEPT !.name = n]
                   servers == Stored("mcp_servers")
               IN  Invoke(Dispatched, c)
                   => /\ NameTaken(servers, Entry(c.id, n))
                         => /\ cpc'[Dispatched] = "idle"
                            /\ ~cres'.response.success
                            /\ files' = files
                      /\ (NameTaken(servers, Entry(c.id, n))
                            /\ (c.op = "add") # AnyId(servers, c.id))
                         => cres'.response = ApiError("name_exists")
                      /\ (c.op = "update"
                            /\ \E i \in DOMAIN servers : servers[i] = Entry(c.id, n))
                         => /\ cpc'[Dispatched] = "write"
                            /\ config'[Dispatched].items = servers
       ]_vars

\* An update that would have given a second server the name of the first was
\* refused, and both servers are stored under their own names.
C12_Witness ==
    /\ cres.cmd.doc = "mcp_servers"
    /\ cres.cmd.op = "update"
    /\ cres.response = ApiError("name_exists")
    /\ Len(Stored("mcp_servers")) = 2
    /\ \A t \in Workers : cpc[t] = "idle"

(***************************************************************************)
(* Properties of the commands on config.json.                              *)
(***************************************************************************)
\* The JSON type of a value, and the types a key of update_config's
\* argument is meant to have (an Option<String> is a string or null).
JsonType(v) == IF v.t = "float" THEN "number" ELSE v.t

ExpectedTypes(key) ==
    CASE key = "port" -> {"number"}
      [] key \in {"host", "logLevel"} -> {"string"}
      [] key \in {"defaultProviderId", "defaultChatModelId",
                  "defaultEmbeddingModelId"} -> {"string", "null"}
      [] key \in {"autoStart", "minimizeToTray"} -> {"bool"}
      [] OTHER -> {}

\* The field of a BridgeConfig that a key names.
FieldOf(c, key) ==
    CASE key = "port" -> <<c.port>>
      [] key = "host" -> <<c.host>>
      [] key = "logLevel" -> <<c.log_level>>
      [] key = "defaultProviderId" -> c.default_provider_id
      [] key = "defaultChatModelId" -> c.default_chat_model_id
      [] key = "defaultEmbeddingModelId" -> c.default_embedding_model_id
      [] key = "autoStart" -> <<c.auto_start>>
      [] key = "minimizeToTray" -> <<c.minimize_to_tray>>

RecognizedKeys == PatchKeys \ {"theme"}

\* C13: in the document update_config is about to write, a recognized key
\* given with a value of the wrong JSON type has left its field as it was
\* read, and so has every key the argument does not name; an unknown key
\* changes nothing.
C13_MismatchIgnored ==
    [][(upd.pc = "idle" /\ upd'.pc = "write")
        => LET before == read_config_BridgeConfig(cfgFile)
               patch == upd'.patch
               after == upd'.current
           IN  /\ after.version = before.version
               /\ \A key \in RecognizedKeys :
                    (patch[key] = Absent
                       \/ JsonType(patch[key]) \notin ExpectedTypes(key))
                    => FieldOf(after, key) = FieldOf(before, key)
    ]_vars

Unusable(content) ==
    \/ content.tag \in {"missing", "unreadable", "corrupt"}
    \/ from_str_BridgeConfig(content.obj) = <<>>

\* C15: get_config always answers success and leaves config.json as it is,
\* and on a missing, unreadable or malformed file it answers the default
\* document: version 1, port 3001, host "localhost", log level "info", no
\* default ids, autoStart and minimizeToTray true.  A collection command
\* that reads a missing or malformed file goes on from version 1 and the
\* empty list, without touching the file.
C15_ReadDefaults ==
    [][/\ (ncfg' = ncfg + 1 /\ cfgCall'.op = "get_config")
          => /\ cfgCall'.response = ApiSuccess
             /\ Len(cfgCall'.data) = 1
             /\ cfgFile' = cfgFile
             /\ Unusable(cfgFile)
                => cfgCall'.data[1] =
                      [version |-> 1,
                       port |-> 3001,
                       host |-> "localhost",
                       log_level |-> "info",
                       default_provider_id |-> <<>>,
                       default_chat_model_id |-> <<>>,
                       default_embedding_model_id |-> <<>>,
                       auto_start |-> TRUE,
                       minimize_to_tray |-> TRUE]
       /\ \A t \in Workers :
            (ReadStep(t) /\ files[CommandOf(t).doc].tag # "json")
            => /\ files' = files
               /\ IF CommandOf(t).op = "add"
                  THEN /\ cpc'[t] = "write"
                       /\ config'[t].version = 1
                       /\ Len(config'[t].items) = 1
                  ELSE /\ cpc'[t] = "idle"
                       /\ cres'.response = ApiError("not_found")
    ]_vars

\* get_config has answered the default document on a damaged config.json.
C15_Witness ==
    /\ cfgCall.op = "get_config"
    /\ cfgFile.tag = "corrupt"
    /\ cfgCall.response = ApiSuccess
    /\ cfgCall.data = <<BridgeConfigDefault>>

(***************************************************************************)
(* C16..C18: the BridgeClient commands.                                    *)
(***************************************************************************)
\* The step at which command c returns.
Returns(c) == req.pc = "sent" /\ req.cmd = c /\ req'.pc = "idle"

\* The step at which command c is invoked.
Sends(c) == req.pc = "idle" /\ req'.pc = "sent" /\ req'.cmd = c

\* C16: get_bridge_status always returns a success envelope.  The data says
\* running exactly when the health request was answered with a 2xx status;
\* when the request failed at transport level or was answered with another
\* status, the data is running false, the port and URL of the stored
\* config.json as read when the command was invoked, and no uptime.  The
\* result is made of the request's outcome and that config alone, whatever
\* the supervisor's process handle holds, and the command leaves the
\* supervisor's state as it is.
C16_BridgeStatusAlwaysSuccess ==
    [][/\ Sends("get_bridge_status") =>
            /\ req'.host = read_config_BridgeConfig(cfgFile).host
            /\ req'.port = read_config_BridgeConfig(cfgFile).port
            /\ UNCHANGED supVars
       /\ Returns("get_bridge_status") =>
            /\ hres'.cmd = "get_bridge_status"
            /\ hres'.response = ApiSuccess
            /\ hres'.data.kind = "status"
            /\ hres'.data.running = Answered(hres'.http)
            /\ hres'.data.port = req.port
            /\ hres'.data.url = <<req.host, req.port>>
            /\ ~Answered(hres'.http) => ~hres'.data.uptime
            /\ UNCHANGED supVars]_vars

\* The service cannot be reached while the supervisor holds a running child,
\* and the status says not running at the port config.json names.
C16_Witness ==
    /\ hres.cmd = "get_bridge_status"
    /\ hres.http.kind \in {"connect_error", "timeout"}
    /\ hres.response = ApiSuccess
    /\ ~hres.data.running
    /\ hres.data.port = 8080
    /\ process_guard # None
    /\ procs[process_guard] = "running"

\* C17: every BridgeClient command eventually returns a result, even if the
\* bridge service accepts the connection and never answers: a request that
\* was sent is always followed by the command's return.
C17_EveryCommandReturns ==
    \A c \in ClientCommands :
        (req.pc = "sent" /\ req.cmd = c) ~> (req.pc = "idle")

\* The commands that decode the body of a 2xx response for a sub-field:
\* servers, tools, logs (or data.logs), data.
DecodingCommands ==
    {"get_mcp_server_status", "get_mcp_server_tools", "get_logs",
     "validate_provider", "get_provider_models", "test_model"}

\* The last command decoded a 2xx response with this kind of body.
Decoded(bodies) ==
    /\ hres.cmd \in DecodingCommands
    /\ Answered(hres.http)
    /\ hres.http.body \in bodies

\* A body that parses as JSON and has no sub-field of the expected name.
LacksField == {"lacks_field", "array"}

\* C18 as stated: for every BridgeClient command that decodes a response
\* body, a 2xx response whose JSON body lacks the expected sub-field yields a
\* success envelope with an empty result, and a 2xx body that is not JSON
\* yields an error envelope.
C18_LenientDecoding ==
    /\ Decoded(LacksField) =>
           hres.response = ApiSuccess /\ hres.data.kind = "empty"
    /\ Decoded({"not_json"}) => ~hres.response.success

\* C18, amended: a 2xx body that is not JSON yields an error envelope for
\* all six commands.  A 2xx JSON body without the expected sub-field yields
\* success with an empty list for get_mcp_server_tools and get_logs, and for
\* get_mcp_server_status unless the body is itself the array of statuses,
\* which is returned; success with the whole body for get_provider_models;
\* and an error envelope saying that data is missing for validate_provider
\* and test_model.
C18_DecodingByCommand ==
    /\ Decoded({"not_json"}) => hres.response = ApiError("bad_body")
    /\ Decoded(LacksField) =>
         CASE hres.cmd \in {"get_mcp_server_tools", "get_logs"} ->
                hres.response = ApiSuccess /\ hres.data.kind = "empty"
           [] hres.cmd = "get_mcp_server_status" ->
                /\ hres.response = ApiSuccess
                /\ hres.data.kind =
                      IF hres.http.body = "array" THEN "list" ELSE "empty"
           [] hres.cmd = "get_provider_models" ->
                hres.response = ApiSuccess /\ hres.data.kind = "body"
           [] hres.cmd \in {"validate_provider", "test_model"} ->
                hres.response = ApiError("missing_data")

\* validate_provider was answered 200 with a JSON body without data and
\* returned the error.
C18_Witness ==
    /\ hres.cmd = "validate_provider"
    /\ hres.http = Response(200, "lacks_field")
    /\ hres.response = ApiError("missing_data")

(***************************************************************************)
(* C19: the launch location.                                               *)
(***************************************************************************)
\* The candidates in the order of precedence, each with what tells that it
\* exists: the override and the resource directory by themselves, "../.."
\* by src/server.ts, "." always.
Candidates(e) ==
    (IF e.env # <<>> THEN <<[path |-> e.env[1], found |-> exists(e, e.env[1])]>>
     ELSE <<>>)
    \o (IF e.resource_dir # <<>>
        THEN <<[path |-> join(e.resource_dir[1], "bridge-service"),
                found |-> exists(e, join(e.resource_dir[1], "bridge-service"))]>>
        ELSE <<>>)
    \o <<[path |-> dev_path,
          found |-> exists(e, join(join(dev_path, "src"), "server.ts"))],
         [path |-> CurrentDir, found |-> TRUE]>>

FirstFound(e) ==
    LET c == Candidates(e)
        i == CHOOSE k \in 1..Len(c) :
                 c[k].found /\ \A j \in 1..(k - 1) : ~c[j].found
    IN  c[i].path

\* C19: the launch location is the first candidate that exists on disk, in
\* the order BRIDGE_SERVICE_PATH, the packaged "bridge-service" directory,
\* "../.." (recognised by src/server.ts), the current directory; a candidate
\* that does not exist is never selected ahead of a later existing one.
C19_FirstExistingCandidate ==
    launch.pc = "resolved" => launch.service_path = FirstFound(disk)

(***************************************************************************)
(* C20: reads and writes of a document are not serialized.                 *)
(***************************************************************************)
\* The answer of an add of id that returned success.
AddedOk(id) ==
    [cmd |-> [op |-> "add", doc |-> "providers", id |-> id, name |-> NoName],
     response |-> ApiSuccess]

\* C20: a mutation command that reaches its write and succeeds leaves in the
\* file exactly the collection it read and changed, whatever other commands
\* wrote in between: the stored document is the one written by the later
\* write.  Nothing keeps a second command from reading while the first has
\* not written yet (see the witness).
C20_LastWriteWins ==
    [][\A t \in Workers :
        (cpc[t] = "write" /\ cpc'[t] = "idle" /\ cres'.response = ApiSuccess)
        => /\ read_config(files'[cmd[t].doc]).items = config[t].items
           /\ \A d \in Docs \ {cmd[t].doc} : files'[d] = files[d]
    ]_vars

\* Two adds with distinct new ids were the only commands, both returned
\* success, and the stored collection holds one entry only.
C20_Witness ==
    /\ ncmds = 2
    /\ \A t \in Workers : cpc[t] = "idle"
    /\ answers = {AddedOk(1), AddedOk(2)}
    /\ Len(Stored("providers")) = 1

(***************************************************************************)
(* C21, C22: what update_config and the adds write.                        *)
(***************************************************************************)
\* The step at which update_config writes its document and answers success.
UpdateWritten ==
    /\ upd.pc = "write"
    /\ upd'.pc = "idle"
    /\ cfgCall'.response = ApiSuccess

\* The step at which update_config reads config.json and merges.
UpdateRead == upd.pc = "idle" /\ upd'.pc = "write"

\* The port that the value given for "port" stands for, by the rule of the
\* low 16 bits.
Low16(n) == IF n > 65535 THEN n % 65536 ELSE n

\* C21 as stated: update_config given a "port" that is a non-negative JSON
\* integer stores the value itself when it is in 0..65535 and the value
\* modulo 65536 when it is larger (2^64 modulo 65536 is 0); the value is
\* neither refused nor ignored.
C21_PortModulo65536 ==
    [][/\ UpdateRead =>
            LET v == upd'.patch["port"]
            IN  /\ (v.t = "number" /\ v.n >= 0) => upd'.current.port = Low16(v.n)
                /\ v = JIntegerBeyondU64 => upd'.current.port = 0
       /\ UpdateWritten =>
            /\ read_config_BridgeConfig(cfgFile').port = upd.current.port
            /\ cfgCall'.data = <<upd.current>>
    ]_vars

\* C21, amended: the same for the integers a u64 holds, 0..2^64-1; a larger
\* integer is ignored like a value of another type, and the port read from
\* config.json stays.
C21_PortTruncatedWithinU64 ==
    [][/\ UpdateRead =>
            LET v == upd'.patch["port"]
            IN  /\ (v.t = "number" /\ v.n >= 0) => upd'.current.port = Low16(v.n)
                /\ v = JIntegerBeyondU64 =>
                       upd'.current.port = read_config_BridgeConfig(cfgFile).port
       /\ UpdateWritten =>
            /\ read_config_BridgeConfig(cfgFile').port = upd.current.port
            /\ cfgCall'.op = "update_config"
            /\ cfgCall'.data = <<upd.current>>
    ]_vars

\* update_config({"port": 70000}) answered success and config.json holds
\* port 4464.
C21_Witness ==
    /\ cfgCall.op = "update_config"
    /\ cfgCall.response = ApiSuccess
    /\ cfgCall.data[1].port = 4464
    /\ read_config_BridgeConfig(cfgFile).port = 4464

\* C22: a mutating command that reads a corrupt or unreadable file goes on
\* from the type's default with only its own change, and its successful
\* write replaces the file by exactly that: an add on a corrupt collection
\* file writes a collection of exactly one entry, its own, and update_config
\* on a corrupt or unreadable config.json writes a document in which every
\* field the update does not name holds its default.
C22_DamagedFileReplaced ==
    [][/\ \A t \in Workers :
            (ReadStep(t) /\ CommandOf(t).op = "add"
               /\ files[CommandOf(t).doc] = CorruptFile)
            => /\ cpc'[t] = "write"
               /\ config'[t].version = DefaultDoc.version
               /\ Len(config'[t].items) = 1
               /\ config'[t].items[1].id = cmd'[t].id
               /\ config'[t].items[1].name = cmd'[t].name
       /\ \A t \in Workers :
            (cpc[t] = "write" /\ cpc'[t] = "idle" /\ cres'.response = ApiSuccess)
            => /\ files'[cmd[t].doc].tag = "json"
               /\ read_config(files'[cmd[t].doc]) = config[t]
       /\ (UpdateRead /\ cfgFile \in {CorruptConfig, UnreadableConfig})
            => /\ upd'.current.version = BridgeConfigDefault.version
               /\ \A key \in RecognizedKeys :
                     upd'.patch[key] = Absent
                       => FieldOf(upd'.current, key)
                            = FieldOf(BridgeConfigDefault, key)
       /\ UpdateWritten
            => /\ cfgFile'.tag = "json"
               /\ read_config_BridgeConfig(cfgFile') = upd.current
    ]_vars

\* update_config({"host": "a"}) has read a corrupt config.json and holds the
\* default document with host "a", which it is about to write over the file.
C22_Witness ==
    /\ cfgFile = CorruptConfig
    /\ upd.pc = "write"
    /\ upd.patch = [NoPatch EXCEPT !["host"] = JString("a")]
    /\ upd.current = [BridgeConfigDefault EXCEPT !.host = "a"]
====
